---- MODULE Spec2Model ----
(***************************************************************************)
(* Client script of the "Item Weight Measure" form.                        *)
(*                                                                         *)
(* Two versions of the script exist in the repository: the modern one      *)
(* (item_weight_measure.js: clears the three child tables, distributes     *)
(* every result row over items / negative_stock_items / overload_items and *)
(* offers reset_to_zero_btn) and the legacy one (part_000: fills items     *)
(* from item_code / total_qty / ym and nothing else).  The variable        *)
(* `shape` says which of the two is bound to the form.                     *)
(*                                                                         *)
(* A handler of the script runs to completion (JavaScript is single        *)
(* threaded), so every handler is one action.  What is asynchronous is     *)
(* the remote call (its callback is a later action, responses may arrive   *)
(* in any order) and the confirmation dialog (its callback is a later      *)
(* action).  The source does not guard generate_btn against a call that is *)
(* still pending, so neither does the model.  frappe.confirm is a modal    *)
(* dialog that takes the focus: while it is open the user answers it, and  *)
(* only responses of calls already issued can arrive.                      *)
(* refresh(frm) only sets the intro text of the form and touches none of  *)
(* the state below.                                                        *)
(***************************************************************************)
EXTENDS Integers, Sequences, FiniteSets, TLC

VARIABLES
    shape,                  \* "modern" | "legacy": the script bound to the form
    today,                  \* frappe.datetime.get_today()
    company, warehouse,     \* frm.doc.company, frm.doc.warehouse
    from_date, to_date,     \* frm.doc.from_date, frm.doc.to_date
    loaded,                 \* onload has run
    items,                  \* frm.doc.items
    negative_stock_items,   \* frm.doc.negative_stock_items
    overload_items,         \* frm.doc.overload_items
    pending,                \* remote calls issued and not yet answered
    confirmOpen,            \* the frappe.confirm dialog is open
    event,                  \* the handler that ran last
    results,                \* r.message.results of the callback that ran last
    notices                 \* user notices emitted by the handler that ran last

vars == <<shape, today, company, warehouse, from_date, to_date, loaded, items,
          negative_stock_items, overload_items, pending, confirmOpen, event,
          results, notices>>

query == <<company, warehouse, from_date, to_date>>
tables == <<items, negative_stock_items, overload_items>>

----------------------------------------------------------------------------
(* Bounds *)

\* longest results list of one response
MaxResults == 2
\* most rows a child table holds (the legacy script never clears items)
MaxRows == 3
\* most remote calls outstanding at once
MaxPending == 2

\* most rows of negative_stock_items in a stored document
MaxStored == 2

----------------------------------------------------------------------------
(* Dates.  A date string "YYYY-MM-DD" is the tuple <<y, m, d>> (m in 1..12); *)
(* an unset field is the empty string.  A JavaScript Date object is a       *)
(* record whose month runs 0..11.                                           *)

Unset == <<>>

IsLeap(y) == (y % 4 = 0 /\ y % 100 # 0) \/ y % 400 = 0

DaysInMonth(y, m) ==
    IF m = 2 THEN (IF IsLeap(y) THEN 29 ELSE 28)
    ELSE IF m \in {4, 6, 9, 11} THEN 30 ELSE 31

IsDate(s) == /\ s[2] \in 1..12
             /\ s[3] \in 1..DaysInMonth(s[1], s[2])

\* order of two date strings (lexicographic, which is chronological)
DateLE(a, b) ==
    \/ a[1] < b[1]
    \/ a[1] = b[1] /\ a[2] < b[2]
    \/ a[1] = b[1] /\ a[2] = b[2] /\ a[3] <= b[3]

\* variant of add_months with the overflow of Date.prototype.setMonth: a day
\* the new month does not have runs over into the next month
add_months_overflow(s, n) ==
    LET total == s[1] * 12 + (s[2] - 1) + n
        y == total \div 12
        m == (total % 12) + 1
        dim == DaysInMonth(y, m)
    IN  IF s[3] <= dim THEN <<y, m, s[3]>>
        ELSE IF m = 12 THEN <<y + 1, 1, s[3] - dim>>
        ELSE <<y, m + 1, s[3] - dim>>

\* frappe.datetime.add_months(date, n): moment's add(n, "months"), which
\* keeps the day of the month and clamps it to the length of the new month
add_months(s, n) ==
    LET total == s[1] * 12 + (s[2] - 1) + n
        y == total \div 12
        m == (total % 12) + 1
        dim == DaysInMonth(y, m)
    IN  <<y, m, IF s[3] > dim THEN dim ELSE s[3]>>

\* frappe.datetime.str_to_obj: the Date object of a date string
str_to_obj(s) == [year |-> s[1], month |-> s[2] - 1, date |-> s[3]]

\* Date.prototype.setDate(d), for a day d the month has
setDate(o, d) == [o EXCEPT !.date = d]

\* frappe.datetime.obj_to_str: the date string of a Date object
obj_to_str(o) == <<o.year, o.month + 1, o.date>>

\* fromStr of setDefaultDates
fromStr(t) == obj_to_str(setDate(str_to_obj(add_months(t, -12)), 1))

\* variant of SetIfUnset without the test: frm.set_value(f, v) always
SetIfUnset_always(cur, v) == v

\* if (!frm.doc.f) frm.set_value(f, v): the value of f afterwards
SetIfUnset(cur, v) == IF cur = Unset THEN v ELSE cur

----------------------------------------------------------------------------
(* Rows *)

\* rows the report generator answers with, modern shape
ResultRows ==
    { [item |-> "A", best_sell |-> 5, date |-> "2024-06", need |-> 2,
       on_stock |-> -3, overload |-> 0],
      [item |-> "B", best_sell |-> 5, date |-> "2024-03", need |-> 5,
       on_stock |-> 0, overload |-> 3],
      [item |-> "C", best_sell |-> 4, date |-> "2024-01", need |-> 3,
       on_stock |-> -1, overload |-> 1],
      [item |-> "D", best_sell |-> 0, date |-> "2024-02", need |-> 0,
       on_stock |-> 2, overload |-> 0] }

\* rows the report generator answers with, legacy shape
LegacyRows ==
    { [item_code |-> "A", total_qty |-> 5, ym |-> "2024-06"],
      [item_code |-> "B", total_qty |-> 4, ym |-> "2024-03"] }

SeqsUpTo(S, n) == UNION { [1..k -> S] : k \in 0..n }

\* r.message.results of a response, by the shape the script expects
Responses ==
    IF shape = "modern" THEN SeqsUpTo(ResultRows, MaxResults)
    ELSE SeqsUpTo(LegacyRows, MaxResults)

----------------------------------------------------------------------------
(* The result distributor: the forEach of the callback *)

\* frm.add_child(table, values): a new row object with these values, appended
add_child(table, values) == Append(table, values)

\* the values of the row the modern callback adds for a result row
ChildValues(item) ==
    [item |-> item.item, qty |-> item.best_sell, date |-> item.date,
     need |-> item.need, on_stock |-> item.on_stock, overload |-> item.overload]

\* the values of the row the legacy callback adds for a result row
LegacyChildValues(item) ==
    [item |-> item.item_code, qty |-> item.total_qty, date |-> item.ym]

\* variants of IsNegativeStock: an off-by-one threshold, and <= for <
IsNegativeStock_belowMinusOne(item) == item.on_stock < -1

IsNegativeStock_orZero(item) == item.on_stock <= 0

\* if (item.on_stock < 0)
IsNegativeStock(item) == item.on_stock < 0

\* variant of IsOverload: an off-by-one threshold
IsOverload_aboveOne(item) == item.overload > 1

\* if (item.overload > 0)
IsOverload(item) == item.overload > 0

\* one turn of the modern forEach, on the three tables t
DistributeRow(t, item) ==
    LET t1 == [t EXCEPT !.items = add_child(@, ChildValues(item))]
        t2 == IF IsNegativeStock(item)
              THEN [t1 EXCEPT !.negative_stock_items = add_child(@, ChildValues(item))]
              ELSE t1
    IN  IF IsOverload(item)
        THEN [t2 EXCEPT !.overload_items = add_child(@, ChildValues(item))]
        ELSE t2

\* one turn of the legacy forEach
LegacyDistributeRow(t, item) ==
    [t EXCEPT !.items = add_child(@, LegacyChildValues(item))]

\* r.message.results.forEach(...), from row i on
RECURSIVE Distribute(_, _, _)
Distribute(t, res, i) ==
    IF i > Len(res) THEN t
    ELSE Distribute(IF shape = "modern" THEN DistributeRow(t, res[i])
                    ELSE LegacyDistributeRow(t, res[i]),
                    res, i + 1)

Tables == [items |-> items, negative_stock_items |-> negative_stock_items,
           overload_items |-> overload_items]

----------------------------------------------------------------------------
(* The negative-stock corrector *)

\* r.qty ?? r.best_sell
QtyField(r) ==
    IF "qty" \in DOMAIN r THEN r.qty
    ELSE IF "best_sell" \in DOMAIN r THEN r.best_sell
    ELSE 0

\* Number(v) || 0, of a number
NumberOrZero(v) == IF v = 0 THEN 0 ELSE v

\* variant of ResetRow that adds qty to need instead of assigning it
ResetRow_addToNeed(r) ==
    [r EXCEPT !.on_stock = 0, !.need = r.need + NumberOrZero(QtyField(r)),
              !.overload = 0]

\* variant of ResetRow that forgets r.need = qty
ResetRow_keepNeed(r) == [r EXCEPT !.on_stock = 0, !.overload = 0]

\* the body of rows.forEach: the row r after the correction
ResetRow(r) ==
    LET qty == NumberOrZero(QtyField(r))
    IN  [r EXCEPT !.on_stock = 0, !.need = qty, !.overload = 0]

----------------------------------------------------------------------------
(* The corrector on rows of a stored document.  The child schema may keep   *)
(* the quantity in qty or in best_sell, and a stored field may hold any     *)
(* JavaScript value.  A value is a record: t is its type, n its number       *)
(* (nan: it is NaN), s its text; a field the row does not have reads        *)
(* undefined.                                                               *)

JsUndefined == [t |-> "undefined", n |-> 0, nan |-> FALSE, s |-> ""]
JsNull == [t |-> "null", n |-> 0, nan |-> FALSE, s |-> ""]
JsNaN == [t |-> "number", n |-> 0, nan |-> TRUE, s |-> ""]
JsNumber(n) == [t |-> "number", n |-> n, nan |-> FALSE, s |-> ""]
JsString(s) == [t |-> "string", n |-> 0, nan |-> FALSE, s |-> s]

\* values a stored qty or best_sell holds
StoredValues ==
    { JsUndefined, JsNull, JsNumber(5), JsNumber(0), JsString("7"), JsString("abc") }

\* Number(s) of a string: the number it spells, 0 for the empty string, else NaN
StringToNumber(s) ==
    CASE s = "" -> JsNumber(0)
      [] s = "0" -> JsNumber(0)
      [] s = "5" -> JsNumber(5)
      [] s = "7" -> JsNumber(7)
      [] OTHER -> JsNaN

\* Number(v)
ToNumber(v) ==
    CASE v.t = "number" -> v
      [] v.t = "undefined" -> JsNaN
      [] v.t = "null" -> JsNumber(0)
      [] v.t = "string" -> StringToNumber(v.s)

\* v is falsy
IsFalsy(v) ==
    \/ v.t \in {"undefined", "null"}
    \/ v.t = "number" /\ (v.nan \/ v.n = 0)
    \/ v.t = "string" /\ v.s = ""

\* variant of Coalesce with || for ??: any falsy a gives b
Coalesce_or(a, b) == IF IsFalsy(a) THEN b ELSE a

\* a ?? b
Coalesce(a, b) == IF a.t \in {"undefined", "null"} THEN b ELSE a

\* a || b
OrElse(a, b) == IF IsFalsy(a) THEN b ELSE a

\* const qty = Number(r.qty ?? r.best_sell) || 0
StoredQty(r) == OrElse(ToNumber(Coalesce(r.qty, r.best_sell)), JsNumber(0))

\* the body of rows.forEach on a stored row: on_stock, need and overload are
\* numbers afterwards
ResetStoredRow(r) ==
    [r EXCEPT !.on_stock = 0, !.need = StoredQty(r).n, !.overload = 0]

\* rows of negative_stock_items of a stored document
StoredRows ==
    { [item |-> "A", date |-> "2024-06", qty |-> q, best_sell |-> b,
       need |-> 2, on_stock |-> -3, overload |-> 0] :
      q \in StoredValues, b \in StoredValues }

----------------------------------------------------------------------------
(* Initial states *)

InitWith(Todays, Presets) ==
    /\ shape \in {"modern", "legacy"}
    /\ today \in Todays
    /\ company = "C1"
    /\ warehouse = ""
    /\ from_date \in Presets \cup {Unset}
    /\ to_date \in Presets \cup {Unset}
    /\ (from_date # Unset /\ to_date # Unset) => DateLE(from_date, to_date)
    /\ loaded = FALSE
    /\ items = <<>>
    /\ negative_stock_items = <<>>
    /\ overload_items = <<>>
    /\ pending = <<>>
    /\ confirmOpen = FALSE
    /\ event = "init"
    /\ results = <<>>
    /\ notices = <<>>

\* years the date of today is drawn from, for the default-date resolver alone
YearSpan == 2
Years == 2024..(2024 + YearSpan - 1)

\* every calendar day of Years
Todays == { s \in Years \X (1..12) \X (1..31) : IsDate(s) }

\* dates a stored document may hold: before, within and after Years
PresetDates == { <<2023, 1, 15>>, <<2024, 6, 30>>, <<2026, 12, 1>> }

InitOnload == InitWith(Todays, PresetDates)

Init == InitWith({<<2024, 2, 29>>}, {<<2024, 1, 1>>})

\* a stored document is opened: its negative_stock_items holds stored rows
InitStored ==
    /\ shape = "modern"
    /\ today = <<2024, 2, 29>>
    /\ company = "C1"
    /\ warehouse = ""
    /\ from_date = <<2024, 1, 1>>
    /\ to_date = <<2024, 1, 1>>
    /\ loaded = FALSE
    /\ items = <<>>
    /\ negative_stock_items \in SeqsUpTo(StoredRows, MaxStored)
    /\ overload_items = <<>>
    /\ pending = <<>>
    /\ confirmOpen = FALSE
    /\ event = "init"
    /\ results = <<>>
    /\ notices = <<>>

----------------------------------------------------------------------------
(* Handlers *)

\* onload(frm): setDefaultDates()
onload ==
    /\ ~loaded
    /\ loaded' = TRUE
    /\ from_date' = SetIfUnset(from_date, fromStr(today))
    /\ to_date' = SetIfUnset(to_date, today)
    /\ event' = "onload"
    /\ notices' = <<>>
    /\ UNCHANGED <<shape, today, company, warehouse, tables, pending,
                   confirmOpen, results>>

\* the args of frappe.call
CallArgs == [company |-> company, warehouse |-> warehouse,
             from_date |-> from_date, to_date |-> to_date]

\* variant of generate_btn that clears items alone
generate_btn_clearItemsOnly ==
    /\ loaded /\ ~confirmOpen
    /\ shape = "modern"
    /\ Len(pending) < MaxPending
    /\ items' = <<>>
    /\ pending' = Append(pending, CallArgs)
    /\ event' = "generate_btn"
    /\ notices' = <<>>
    /\ UNCHANGED <<shape, today, query, loaded, negative_stock_items,
                   overload_items, confirmOpen, results>>

\* variant of generate_btn that issues the call before the tables are
\* cleared and never gets to clear overload_items
generate_btn_keepOverload ==
    /\ loaded /\ ~confirmOpen
    /\ shape = "modern"
    /\ Len(pending) < MaxPending
    /\ items' = <<>>
    /\ negative_stock_items' = <<>>
    /\ pending' = Append(pending, CallArgs)
    /\ event' = "generate_btn"
    /\ notices' = <<>>
    /\ UNCHANGED <<shape, today, query, loaded, overload_items, confirmOpen,
                   results>>

\* generate_btn(frm) of the modern script: clear the tables, issue the call
generate_btn ==
    /\ loaded /\ ~confirmOpen
    /\ shape = "modern"
    /\ Len(pending) < MaxPending
    /\ items' = <<>>
    /\ negative_stock_items' = <<>>
    /\ overload_items' = <<>>
    /\ pending' = Append(pending, CallArgs)
    /\ event' = "generate_btn"
    /\ notices' = <<>>
    /\ UNCHANGED <<shape, today, query, loaded, confirmOpen, results>>

\* generate_btn(frm) of the legacy script: issue the call
legacy_generate_btn ==
    /\ loaded /\ ~confirmOpen
    /\ shape = "legacy"
    /\ Len(pending) < MaxPending
    /\ pending' = Append(pending, CallArgs)
    /\ event' = "generate_btn"
    /\ notices' = <<>>
    /\ UNCHANGED <<shape, today, query, loaded, tables, confirmOpen, results>>

\* the sequence s without its element k
Remove(s, k) == [j \in 1..(Len(s) - 1) |-> IF j < k THEN s[j] ELSE s[j + 1]]

\* callback(r) of the call pending[k], answered with r.message.results = res
callback(k, res) ==
    /\ k \in DOMAIN pending
    /\ Len(items) + Len(res) <= MaxRows
    /\ LET t == Distribute(Tables, res, 1)
       IN  /\ items' = t.items
           /\ negative_stock_items' = t.negative_stock_items
           /\ overload_items' = t.overload_items
    /\ pending' = Remove(pending, k)
    /\ event' = "callback"
    /\ results' = res
    /\ notices' = IF shape = "legacy" THEN <<"Done">> ELSE <<>>
    /\ UNCHANGED <<shape, today, query, loaded, confirmOpen>>

\* the call pending[k] fails: frappe.call does not run the callback
call_failed(k) ==
    /\ k \in DOMAIN pending
    /\ pending' = Remove(pending, k)
    /\ event' = "call_failed"
    /\ notices' = <<>>
    /\ UNCHANGED <<shape, today, query, loaded, tables, confirmOpen, results>>

\* variant of reset_to_zero_btn that corrects the rows without asking
reset_to_zero_btn_noConfirm ==
    /\ loaded /\ ~confirmOpen
    /\ shape = "modern"
    /\ notices' = IF Len(negative_stock_items) = 0
                  THEN <<"No rows in Negative Stock Items.">>
                  ELSE <<"Reset complete.">>
    /\ negative_stock_items' =
           [i \in DOMAIN negative_stock_items |-> ResetRow(negative_stock_items[i])]
    /\ confirmOpen' = FALSE
    /\ event' = "reset_to_zero_btn"
    /\ UNCHANGED <<shape, today, query, loaded, items, overload_items,
                   pending, results>>

\* variant of reset_to_zero_btn without the return after the notice
reset_to_zero_btn_noReturn ==
    /\ loaded /\ ~confirmOpen
    /\ shape = "modern"
    /\ notices' = IF Len(negative_stock_items) = 0
                  THEN <<"No rows in Negative Stock Items.">> ELSE <<>>
    /\ confirmOpen' = TRUE
    /\ event' = "reset_to_zero_btn"
    /\ UNCHANGED <<shape, today, query, loaded, tables, pending, results>>

\* reset_to_zero_btn(frm): a notice when there are no rows, else the dialog
reset_to_zero_btn ==
    /\ loaded /\ ~confirmOpen
    /\ shape = "modern"
    /\ LET rows == negative_stock_items
       IN  IF Len(rows) = 0
           THEN /\ notices' = <<"No rows in Negative Stock Items.">>
                /\ confirmOpen' = FALSE
           ELSE /\ notices' = <<>>
                /\ confirmOpen' = TRUE
    /\ event' = "reset_to_zero_btn"
    /\ UNCHANGED <<shape, today, query, loaded, tables, pending, results>>

\* r is a row of the item and month of one of the rows being corrected
IsCopyOfCorrected(r) ==
    \E i \in DOMAIN negative_stock_items :
        /\ negative_stock_items[i].item = r.item
        /\ negative_stock_items[i].date = r.date

\* variant of confirm_yes in which the three tables share one row object per
\* result row, so that the correction shows in items and overload_items too
confirm_yes_shared ==
    /\ confirmOpen
    /\ negative_stock_items' =
           [i \in DOMAIN negative_stock_items |-> ResetRow(negative_stock_items[i])]
    /\ items' = [i \in DOMAIN items |->
                    IF IsCopyOfCorrected(items[i]) THEN ResetRow(items[i])
                    ELSE items[i]]
    /\ overload_items' = [i \in DOMAIN overload_items |->
                    IF IsCopyOfCorrected(overload_items[i])
                    THEN ResetRow(overload_items[i]) ELSE overload_items[i]]
    /\ confirmOpen' = FALSE
    /\ event' = "confirm_yes"
    /\ notices' = <<"Reset complete.">>
    /\ UNCHANGED <<shape, today, query, loaded, pending, results>>

\* the user confirms: rows.forEach(...), then the notice
confirm_yes ==
    /\ confirmOpen
    /\ negative_stock_items' =
           [i \in DOMAIN negative_stock_items |-> ResetRow(negative_stock_items[i])]
    /\ confirmOpen' = FALSE
    /\ event' = "confirm_yes"
    /\ notices' = <<"Reset complete.">>
    /\ UNCHANGED <<shape, today, query, loaded, items, overload_items,
                   pending, results>>

\* the user confirms, the rows being rows of a stored document
confirm_yes_stored ==
    /\ confirmOpen
    /\ negative_stock_items' =
           [i \in DOMAIN negative_stock_items |->
               ResetStoredRow(negative_stock_items[i])]
    /\ confirmOpen' = FALSE
    /\ event' = "confirm_yes"
    /\ notices' = <<"Reset complete.">>
    /\ UNCHANGED <<shape, today, query, loaded, items, overload_items,
                   pending, results>>

\* the user declines or closes the dialog
confirm_no ==
    /\ confirmOpen
    /\ confirmOpen' = FALSE
    /\ event' = "confirm_no"
    /\ notices' = <<>>
    /\ UNCHANGED <<shape, today, query, loaded, tables, pending, results>>

Next ==
    \/ onload
    \/ generate_btn
    \/ legacy_generate_btn
    \/ \E k \in 1..MaxPending : \E res \in Responses : callback(k, res)
    \/ \E k \in 1..MaxPending : call_failed(k)
    \/ reset_to_zero_btn
    \/ confirm_yes
    \/ confirm_no

Spec == Init /\ [][Next]_vars

\* the default-date resolver alone, over every day of Years
NextOnload == onload

SpecOnload == InitOnload /\ [][NextOnload]_vars

\* the corrector alone, on the rows of a stored document
NextStored ==
    \/ onload
    \/ reset_to_zero_btn
    \/ confirm_yes_stored
    \/ confirm_no

SpecStored == InitStored /\ [][NextStored]_vars

----------------------------------------------------------------------------
(* Properties *)

AllEmpty == items = <<>> /\ negative_stock_items = <<>> /\ overload_items = <<>>

\* the row of a table that the modern distributor derives from the result row r
DerivedFrom(row, r) ==
    /\ row.item = r.item
    /\ row.qty = r.best_sell
    /\ row.date = r.date
    /\ row.need = r.need
    /\ row.on_stock = r.on_stock
    /\ row.overload = r.overload

\* the step is the confirmation callback of reset_to_zero_btn
ConfirmStep == confirmOpen /\ event' = "confirm_yes"

\* C1: every generate action leaves the three tables empty when it has issued
\* its call, and after the callback of a response with an empty results list
\* the three tables are empty, for the modern and for the legacy script.
C1_GenerateClears ==
    /\ event = "generate_btn" => AllEmpty
    /\ (event = "callback" /\ results = <<>>) => AllEmpty

\* C2: after any response callback of the modern generate, items has as many
\* rows as that response's results, also when a second click was issued
\* while the first call was pending.
C2_ItemsCountEqualsResults ==
    (shape = "modern" /\ event = "callback") => Len(items) = Len(results)

\* C3: after the callback's distribution, every result row with on_stock < 0
\* has a row derived from it in items and one in negative_stock_items.
C3_NegativeRowsInBoth ==
    (shape = "modern" /\ event = "callback") =>
        \A i \in DOMAIN results :
            results[i].on_stock < 0 =>
                /\ \E j \in DOMAIN items : DerivedFrom(items[j], results[i])
                /\ \E j \in DOMAIN negative_stock_items :
                       DerivedFrom(negative_stock_items[j], results[i])

\* C3 witness: the response <<A, B>> has been distributed, A (on_stock -3)
\* being the one row of negative_stock_items.
C3_Witness ==
    /\ shape = "modern" /\ event = "callback"
    /\ Len(results) = 2 /\ results[1].on_stock = -3 /\ results[2].on_stock = 0
    /\ Len(items) = 2
    /\ Len(negative_stock_items) = 1 /\ negative_stock_items[1].item = "A"

\* C4: after the callback's distribution, every result row with overload > 0
\* has a row derived from it in items and one in overload_items.
C4_OverloadRowsInBoth ==
    (shape = "modern" /\ event = "callback") =>
        \A i \in DOMAIN results :
            results[i].overload > 0 =>
                /\ \E j \in DOMAIN items : DerivedFrom(items[j], results[i])
                /\ \E j \in DOMAIN overload_items :
                       DerivedFrom(overload_items[j], results[i])

\* C4 witness: the response <<A, B>> has been distributed, B (overload 3)
\* being the one row of overload_items.
C4_Witness ==
    /\ shape = "modern" /\ event = "callback"
    /\ Len(results) = 2 /\ results[1].overload = 0 /\ results[2].overload = 3
    /\ Len(items) = 2
    /\ Len(overload_items) = 1 /\ overload_items[1].item = "B"

\* C5 as claimed: in every reachable state no row of negative_stock_items has
\* on_stock >= 0 and no row of overload_items has overload <= 0.
C5_SubsetPredicatesAlways ==
    /\ \A i \in DOMAIN negative_stock_items : negative_stock_items[i].on_stock < 0
    /\ \A i \in DOMAIN overload_items : overload_items[i].overload > 0

\* C5 as amended: in every reachable state a row of negative_stock_items has
\* on_stock < 0 unless it is a corrected row (on_stock = 0, need = qty,
\* overload = 0), and no row of overload_items has overload <= 0.
C5_SubsetPredicatesUntilReset ==
    /\ \A i \in DOMAIN negative_stock_items :
           LET r == negative_stock_items[i]
           IN  \/ r.on_stock < 0
               \/ r.on_stock = 0 /\ r.need = r.qty /\ r.overload = 0
    /\ \A i \in DOMAIN overload_items : overload_items[i].overload > 0

\* C5 witness: negative_stock_items holds a corrected row and, from a later
\* response, a row not corrected; overload_items holds a row.
C5_Witness ==
    /\ \E i, j \in DOMAIN negative_stock_items :
           /\ negative_stock_items[i].on_stock = 0
           /\ negative_stock_items[j].on_stock < 0
    /\ overload_items # <<>>

\* C6: the confirmation callback of reset_to_zero leaves every row of
\* negative_stock_items with on_stock = 0, overload = 0 and need = the qty
\* the row held when it was corrected.
C6_ResetCorrectsEveryRow ==
    [][ConfirmStep =>
          /\ negative_stock_items # <<>>
          /\ DOMAIN negative_stock_items' = DOMAIN negative_stock_items
          /\ \A i \in DOMAIN negative_stock_items :
                 /\ negative_stock_items'[i].on_stock = 0
                 /\ negative_stock_items'[i].overload = 0
                 /\ negative_stock_items'[i].need = negative_stock_items[i].qty]_vars

\* C6 witness: {qty: 5, on_stock: -3, need: 2, overload: 0} has become
\* {on_stock: 0, need: 5, overload: 0}.
C6_Witness ==
    /\ event = "confirm_yes"
    /\ negative_stock_items =
           <<[item |-> "A", qty |-> 5, date |-> "2024-06", need |-> 5,
              on_stock |-> 0, overload |-> 0]>>
    /\ \E j \in DOMAIN items : items[j].item = "A" /\ items[j].need = 2

\* C7: reset_to_zero on an empty negative_stock_items emits exactly one
\* notice, opens no dialog and changes none of the tables or query fields.
C7_ResetOnEmptyOnlyNotifies ==
    [][(event' = "reset_to_zero_btn" /\ negative_stock_items = <<>>) =>
          /\ Len(notices') = 1
          /\ ~confirmOpen'
          /\ UNCHANGED tables
          /\ UNCHANGED query
          /\ UNCHANGED pending]_vars

\* C7 witness: reset_to_zero has just run on an empty negative_stock_items
\* while items holds rows.
C7_Witness ==
    /\ event = "reset_to_zero_btn"
    /\ negative_stock_items = <<>>
    /\ items # <<>>
    /\ Len(notices) = 1
    /\ ~confirmOpen

\* C8: a confirmed reset_to_zero leaves items and overload_items unchanged
\* and issues no remote call.
C8_ResetIsLocal ==
    [][ConfirmStep =>
          /\ items' = items
          /\ overload_items' = overload_items
          /\ pending' = pending]_vars

\* C8 witness: after a confirmation, items and overload_items hold a copy,
\* still with on_stock < 0, of a row corrected in negative_stock_items.
C8_Witness ==
    /\ event = "confirm_yes"
    /\ \E n \in DOMAIN negative_stock_items :
         \E i \in DOMAIN items : \E o \in DOMAIN overload_items :
           /\ negative_stock_items[n].on_stock = 0
           /\ items[i].item = negative_stock_items[n].item
           /\ items[i].date = negative_stock_items[n].date
           /\ items[i].on_stock < 0
           /\ overload_items[o].item = negative_stock_items[n].item
           /\ overload_items[o].date = negative_stock_items[n].date
           /\ overload_items[o].on_stock < 0 /\ overload_items[o].overload > 0

\* C9: onload leaves a from_date that was set as it was, and independently a
\* to_date that was set as it was; the fields that were unset are filled.
C9_OnloadKeepsPreset ==
    [][(~loaded /\ loaded') =>
          /\ from_date # Unset => from_date' = from_date
          /\ to_date # Unset => to_date' = to_date
          /\ from_date = Unset => from_date' # Unset
          /\ to_date = Unset => to_date' # Unset]_vars

\* C9 witness: after onload, from_date is the stored 2023-01-15, which is no
\* first day of a month, and to_date has been filled with today.
C9_Witness ==
    /\ loaded
    /\ from_date = <<2023, 1, 15>>
    /\ to_date = today

\* C10: after onload, from_date <= to_date whenever both are present.
C10_FromNotAfterTo ==
    (loaded /\ from_date # Unset /\ to_date # Unset) => DateLE(from_date, to_date)

\* C11: when from_date and to_date are both unset at onload, afterwards
\* to_date is today and from_date is day 1 of the same month of the previous
\* year, for every today, month ends and 29 February included.
C11_DefaultWindow ==
    [][(~loaded /\ loaded' /\ from_date = Unset /\ to_date = Unset) =>
          /\ to_date' = today
          /\ from_date' = <<today[1] - 1, today[2], 1>>]_vars

\* C11 witness: today is 29 February 2024 and onload has filled both fields,
\* from_date with 1 February 2023.
C11_Witness ==
    /\ loaded
    /\ today = <<2024, 2, 29>>
    /\ to_date = <<2024, 2, 29>>
    /\ from_date = <<2023, 2, 1>>

\* the rows of negative_stock_items are still there with their on_stock,
\* need and overload
NegativeRowsKept ==
    \A i \in DOMAIN negative_stock_items :
        /\ i \in DOMAIN negative_stock_items'
        /\ negative_stock_items'[i].on_stock = negative_stock_items[i].on_stock
        /\ negative_stock_items'[i].need = negative_stock_items[i].need
        /\ negative_stock_items'[i].overload = negative_stock_items[i].overload

\* C12: reset_to_zero changes rows of negative_stock_items only in the
\* confirmation callback: the click, every step taken while the dialog is
\* open other than the confirmation, and the decline keep every row's
\* on_stock, need and overload.
C12_NoMutationWithoutConfirm ==
    [][((event' = "reset_to_zero_btn" \/ confirmOpen) /\ event' # "confirm_yes")
          => NegativeRowsKept]_vars

\* C12 witness: the dialog was declined and negative_stock_items still holds
\* a row with on_stock < 0.
C12_Witness ==
    /\ event = "confirm_no"
    /\ \E i \in DOMAIN negative_stock_items : negative_stock_items[i].on_stock < 0

\* the rows of rs, in order, that have on_stock < 0
NegativeOf(rs) == SelectSeq(rs, LAMBDA r : r.on_stock < 0)

\* the rows of rs, in order, that have overload > 0
OverloadOf(rs) == SelectSeq(rs, LAMBDA r : r.overload > 0)

\* table t lists, row for row and in order, the rows derived from rs
ListsInOrder(t, rs) ==
    /\ Len(t) = Len(rs)
    /\ \A i \in DOMAIN rs : DerivedFrom(t[i], rs[i])

\* C13: after a callback's distribution items lists the rows of results in
\* their order, negative_stock_items is the order-preserving subsequence of
\* results with on_stock < 0 and overload_items the one with overload > 0.
C13_OrderPreserved ==
    (shape = "modern" /\ event = "callback") =>
        /\ ListsInOrder(items, results)
        /\ ListsInOrder(negative_stock_items, NegativeOf(results))
        /\ ListsInOrder(overload_items, OverloadOf(results))

\* C14: in every reachable state negative_stock_items and overload_items
\* have at most as many rows as items.
C14_SubsetSizes ==
    /\ Len(negative_stock_items) <= Len(items)
    /\ Len(overload_items) <= Len(items)

\* C14 witness: two result rows with on_stock < 0, one of them with
\* overload > 0: negative_stock_items is as long as items, overload_items
\* is shorter and not empty.
C14_Witness ==
    /\ Len(items) >= 2
    /\ Len(negative_stock_items) = Len(items)
    /\ overload_items # <<>>
    /\ Len(overload_items) < Len(items)

\* C15: at any time at most one remote call of generate is outstanding.
C15_OneCallOutstanding ==
    shape = "modern" => Len(pending) <= 1

\* the field v of a stored row is present
Present(v) == v.t # "undefined" /\ v.t # "null"

\* the number the value v parses as, 0 when it does not parse as a number
ParsedOrZero(v) ==
    IF v.t = "number" /\ ~v.nan THEN v.n
    ELSE IF v = JsString("7") THEN 7
    ELSE 0

\* C16: in a confirmed reset_to_zero the need of a row becomes its qty when
\* qty is present, else its best_sell, and 0 when neither is present or the
\* chosen value does not parse as a number; need is always a number.
C16_QtyFallback ==
    [][ConfirmStep =>
          \A i \in DOMAIN negative_stock_items :
              LET r == negative_stock_items[i]
                  chosen == IF Present(r.qty) THEN r.qty ELSE r.best_sell
              IN  /\ negative_stock_items'[i].need \in Int
                  /\ negative_stock_items'[i].need = ParsedOrZero(chosen)]_vars

\* C16 witness: a row without qty and with best_sell "7", and a row whose
\* qty is "abc" and whose best_sell is 5, have been corrected to need 7 and
\* need 0.
C16_Witness ==
    /\ event = "confirm_yes"
    /\ Len(negative_stock_items) = 2
    /\ negative_stock_items[1].qty = JsUndefined
    /\ negative_stock_items[1].best_sell = JsString("7")
    /\ negative_stock_items[1].need = 7
    /\ negative_stock_items[2].qty = JsString("abc")
    /\ negative_stock_items[2].best_sell = JsNumber(5)
    /\ negative_stock_items[2].need = 0

\* C17: immediately after a distribution of the modern script, every row
\* of negative_stock_items and of overload_items has a field-for-field equal
\* row in items.
C17_SubsetRowsHaveEqualItemsRow ==
    (shape = "modern" /\ event = "callback") =>
        /\ \A i \in DOMAIN negative_stock_items :
               \E j \in DOMAIN items : items[j] = negative_stock_items[i]
        /\ \A i \in DOMAIN overload_items :
               \E j \in DOMAIN items : items[j] = overload_items[i]

\* C18: a confirmed reset_to_zero neither adds nor removes rows of
\* negative_stock_items and keeps each row's item, qty and date; confirming
\* again, on rows all corrected already, changes no table.
C18_ResetIdempotent ==
    [][ConfirmStep =>
          /\ DOMAIN negative_stock_items' = DOMAIN negative_stock_items
          /\ \A i \in DOMAIN negative_stock_items :
                 /\ negative_stock_items'[i].item = negative_stock_items[i].item
                 /\ negative_stock_items'[i].qty = negative_stock_items[i].qty
                 /\ negative_stock_items'[i].date = negative_stock_items[i].date
          /\ (\A i \in DOMAIN negative_stock_items :
                  negative_stock_items[i].on_stock = 0) => UNCHANGED tables]_vars

\* C18 witness: two rows, A with qty 5 and C with qty 4, stand corrected
\* after a confirmation (the state a second confirmation returns to).
C18_Witness ==
    /\ event = "confirm_yes"
    /\ Len(negative_stock_items) = 2
    /\ negative_stock_items[1].item = "A" /\ negative_stock_items[1].qty = 5
    /\ negative_stock_items[2].item = "C" /\ negative_stock_items[2].qty = 4
    /\ \A i \in DOMAIN negative_stock_items :
           negative_stock_items[i].on_stock = 0 /\
           negative_stock_items[i].need = negative_stock_items[i].qty

\* C19: a generate click of the modern script leaves the three tables empty,
\* and they stay empty through every step that is not a response callback,
\* a failed call included.
C19_EmptyUntilCallback ==
    [][(shape = "modern" /\
        (event' = "generate_btn" \/ (AllEmpty /\ event' # "callback")))
          => AllEmpty']_vars

\* C19 witness: a report had rows, generate was clicked again and its call
\* failed: the three tables are empty and no call is pending.
C19_Witness ==
    /\ shape = "modern"
    /\ event = "call_failed"
    /\ results # <<>>
    /\ pending = <<>>
    /\ AllEmpty

====
